---- MODULE Spec2Model ----
(***************************************************************************)
(* Model of the transcription backend (src/server.js): the multer upload   *)
(* middleware, the POST /api/transcribe handler with its three external    *)
(* processes (ffmpeg, python3 faster-whisper script, whisper CLI), and the *)
(* GET /api/health handler.                                                *)
(*                                                                         *)
(* Node runs one continuation of a handler at a time: every action below   *)
(* is one run-to-completion segment of the handler (the code between two   *)
(* awaits), or one run of an external process.  The segment that issues    *)
(* the response is split at the res.json call so that the state "response  *)
(* issued, finally block not yet run" is visible; the variable cur holds   *)
(* the event loop during that split, so no other handler segment can run   *)
(* in between.                                                             *)
(*                                                                         *)
(* File-system calls of the handler are modelled by their outcome on an    *)
(* otherwise healthy disk: unlinkSync of an existing file removes it,      *)
(* unlinkSync of a missing file throws ENOENT.                             *)
(***************************************************************************)
EXTENDS Integers, Sequences, FiniteSets, TLC

\* ---------------------------------------------------------------- bounds
NumReqs == 2
MaxHealth == 1
MaxHandlers == 3

Reqs == 1..NumReqs
\* invocations of the click handlers of the page
Handlers == 1..MaxHandlers

\* ------------------------------------------------------- program constants
FILE_SIZE_LIMIT == 500 * 1024 * 1024

\* allowedTypes = /mp4|mov|avi|webm|mkv|flv|wmv/  (the regex alternatives)
allowedTypes ==
  { <<"m","p","4">>, <<"m","o","v">>, <<"a","v","i">>, <<"w","e","b","m">>,
    <<"m","k","v">>, <<"f","l","v">>, <<"w","m","v">> }

\* ------------------------------------------------------------- text helpers
\* Strings the code computes on are sequences of one-character strings.
LowerChar(c) ==
  CASE c = "A" -> "a" [] c = "M" -> "m" [] c = "O" -> "o" [] c = "V" -> "v"
    [] c = "P" -> "p" [] OTHER -> c

\* String.prototype.toLowerCase
toLowerCase(s) == [i \in 1..Len(s) |-> LowerChar(s[i])]

\* String.prototype.slice(1)
slice1(s) == IF Len(s) = 0 THEN <<>> ELSE SubSeq(s, 2, Len(s))

\* path.extname for a name without directory separators: the text from the
\* last "." on, or "" when there is no "." or the only "." is the first char.
extname(name) ==
  LET dots == {i \in 1..Len(name) : name[i] = "."}
      last == CHOOSE i \in dots : \A j \in dots : j <= i
  IN IF dots = {} THEN <<>>
     ELSE IF last = 1 THEN <<>>
     ELSE SubSeq(name, last, Len(name))

\* pat occurs somewhere inside s
Contains(s, pat) ==
  \E i \in 1..(Len(s) - Len(pat) + 1) : SubSeq(s, i, i + Len(pat) - 1) = pat

\* RegExp.prototype.test for an alternation of literals without anchors
RegexTest(alts, s) == \E pat \in alts : Contains(s, pat)

\* fileFilter: TRUE when cb(null, true) is called, FALSE when cb(new Error(..))
fileFilter(originalname) ==
  LET ext == slice1(toLowerCase(extname(originalname)))
  IN RegexTest(allowedTypes, ext)

\* Text tokens: WS is a whitespace character, any other token is a word.
WS == 0
IsSpace(t) == t = WS

RECURSIVE trimStart(_)
trimStart(s) ==
  IF s # <<>> /\ IsSpace(Head(s)) THEN trimStart(Tail(s)) ELSE s

RECURSIVE trimEnd(_)
trimEnd(s) ==
  IF s # <<>> /\ IsSpace(s[Len(s)]) THEN trimEnd(SubSeq(s, 1, Len(s) - 1)) ELSE s

\* String.prototype.trim
trim(s) == trimEnd(trimStart(s))

\* Words the engines recognise in the audio extracted for request c.
FwWord(c) == 10 + c
WWord(c) == 20 + c
\* print(" ".join(segment texts)): faster-whisper segments start with a blank
FwStdout(c) == <<WS, FwWord(c), WS, FwWord(c), WS>>
\* whisper --output_format txt: one line per segment
WTxt(c) == <<WWord(c), WS>>

\* ------------------------------------------------------------------ paths
\* multer's disk storage names the stored file with fresh random bytes; the
\* request number stands for that name.
videoPathOf(r) == <<"uploads/", r>>
audioPathOf(videoPath) == videoPath \o <<".wav">>
scriptPath == <<"/tmp/transcribe.py">>
\* path.basename(audioPath, path.extname(audioPath))
baseName(audioPath) == audioPath[2]
transcriptPathOf(audioPath) == <<"/tmp/", baseName(audioPath), ".txt">>

\* ---------------------------------------------------------------- uploads
Names ==
  { <<"a",".","m","p","4">>,
    <<"A",".","M","O","V">>,
    <<"a",".","m","o","v","i","e">>,
    <<"a",".","t","x","t">>,
    <<"a">>,
    <<".","m","p","4">> }

Sizes == { 2 * 1024 * 1024, FILE_SIZE_LIMIT + 1 }

NoFile == [present |-> FALSE, originalname |-> <<>>, size |-> 0]
Uploads ==
  {NoFile} \cup
  { [present |-> TRUE, originalname |-> n, size |-> s] : n \in Names, s \in Sizes }

\* ------------------------------------------------------------- responses
NoResp == [status |-> 0, type |-> "none", body |-> <<>>]
JsonTranscript(t) ==
  [status |-> 200, type |-> "json", body |-> [transcript |-> t]]
JsonError(code, msg) ==
  [status |-> code, type |-> "json", body |-> [error |-> msg]]
\* express' built-in error handler: err.status is unset on multer's errors
DefaultErrorPage ==
  [status |-> 500, type |-> "html", body |-> [html |-> <<"Error">>]]

\* ------------------------------------------------------------------ state
VARIABLES
  pc,         \* where each request is
  req,        \* the upload each request carries
  fs,         \* the disk: path -> content, for the files that exist
  locals,     \* the handler's videoPath and audioPath (<<>> is undefined)
  child,      \* the external process a request awaits
  resp,       \* the response issued to each request
  calls,      \* the arguments of every extractAudio / engine call
  out,        \* what each engine returned or threw, per request
  phases,     \* the lifecycle states each request went through
  cur,        \* the request whose handler segment holds the event loop, or 0
  healthResp, \* last response of GET /api/health
  healthCalls

\* state of the finally block when unlinkSync can throw (specification SpecFault)
VARIABLES
  cleanup     \* per request: the unlinkSync calls of finally, and whether it threw

\* state of the browser page (src/unnamed/part_000, specification SpecBrowser)
VARIABLES
  transcriber,     \* the shared model instance, or Null
  isModelLoading,
  btnDisabled,     \* transcribeBtn.disabled
  ytDisabled,      \* youtubeBtn.disabled
  statusText,      \* statusText.textContent
  hpc,             \* where each click-handler invocation is
  hkind,           \* which button started it
  hfound,          \* what it found at its start: -1 not started, 0 the model
                   \* loaded, itself no load running, g the load of g in flight
  hres             \* how it ended

browser == <<transcriber, isModelLoading, btnDisabled, ytDisabled, statusText,
             hpc, hkind, hfound, hres>>
server == <<pc, req, fs, locals, child, resp, calls, out, phases, cur, healthResp, healthCalls, cleanup>>
\* what the actions of the backend leave alone
aux == <<cleanup, browser>>

vars == <<pc, req, fs, locals, child, resp, calls, out, phases, cur, healthResp, healthCalls,
          cleanup, browser>>
pipeline == <<pc, req, fs, locals, child, resp, calls, out, phases, cur>>

NoCalls == [extract |-> <<>>, primary |-> <<>>, fallback |-> <<>>]
\* extract: the exit code extractAudio saw (-1 before it returned)
NoOut == [extract |-> -1, primary |-> <<"none">>, fallback |-> <<"none">>]
NoFs == [p \in {} |-> 0]
NoLocals == [videoPath |-> <<>>, audioPath |-> <<>>]
NoChild == [st |-> "none", code |-> 0, stdout |-> <<>>]
Running == [st |-> "running", code |-> 0, stdout |-> <<>>]
Exited(code, stdout) == [st |-> "exited", code |-> code, stdout |-> stdout]

Exists(p) == p \in DOMAIN fs
\* fs.writeFileSync / the file an external process writes
WriteFile(f, p, content) == [q \in DOMAIN f \cup {p} |-> IF q = p THEN content ELSE f[q]]
\* fs.unlinkSync of an existing file
Unlink(f, p) == [q \in DOMAIN f \ {p} |-> f[q]]

Init ==
  /\ pc = [r \in Reqs |-> "new"]
  /\ req = [r \in Reqs |-> NoFile]
  /\ fs = NoFs
  /\ locals = [r \in Reqs |-> NoLocals]
  /\ child = [r \in Reqs |-> NoChild]
  /\ resp = [r \in Reqs |-> NoResp]
  /\ calls = [r \in Reqs |-> NoCalls]
  /\ out = [r \in Reqs |-> NoOut]
  /\ phases = [r \in Reqs |-> <<>>]
  /\ cur = 0
  /\ healthResp = NoResp
  /\ healthCalls = 0

\* ------------------------------------------------ upload.single('video')
\* multer: no file part -> req.file stays undefined and the handler runs;
\* fileFilter error or LIMIT_FILE_SIZE -> next(err), nothing stays on disk
\* and express' built-in error handler answers; otherwise the file is stored.
MulterUpload(r, u) ==
  /\ cur = 0
  /\ pc[r] = "new"
  /\ req' = [req EXCEPT ![r] = u]
  /\ IF ~u.present
       THEN /\ pc' = [pc EXCEPT ![r] = "uploaded"]
            /\ UNCHANGED <<fs, resp>>
       ELSE IF ~fileFilter(u.originalname) \/ u.size > FILE_SIZE_LIMIT
       THEN /\ pc' = [pc EXCEPT ![r] = "rejected"]
            /\ resp' = [resp EXCEPT ![r] = DefaultErrorPage]
            /\ UNCHANGED fs
       ELSE /\ pc' = [pc EXCEPT ![r] = "uploaded"]
            /\ fs' = WriteFile(fs, videoPathOf(r), "video")
            /\ UNCHANGED resp
  /\ UNCHANGED <<locals, child, calls, out, phases, cur, healthResp, healthCalls, aux>>

\* ------------------------------------------- app.post('/api/transcribe')
\* variant: the handler yields the event loop between response and cleanup
RespondYield(r, response, phase) ==
  /\ resp' = [resp EXCEPT ![r] = response]
  /\ pc' = [pc EXCEPT ![r] = "finally"]
  /\ cur' = cur
  /\ phases' = [phases EXCEPT ![r] = Append(@, phase)]

\* res.status(code).json(..) / res.json(..): the response goes out and the
\* handler still holds the event loop until its finally block has run.
Respond(r, response, phase) ==
  /\ resp' = [resp EXCEPT ![r] = response]
  /\ pc' = [pc EXCEPT ![r] = "finally"]
  /\ cur' = r
  /\ phases' = [phases EXCEPT ![r] = Append(@, phase)]

\* variant: the handler always answers with its generic message
errorBodyGeneric(message) == <<"Transcription failed">>

\* error.message || 'Transcription failed'
errorBody(message) == IF message = <<>> THEN <<"Transcription failed">> ELSE message

\* lines 107-121: entry of the handler up to the await of extractAudio
HandlerStart(r) ==
  /\ cur = 0
  /\ pc[r] = "uploaded"
  /\ IF ~req[r].present
       THEN /\ resp' = [resp EXCEPT ![r] = JsonError(400, <<"No video file uploaded">>)]
            /\ pc' = [pc EXCEPT ![r] = "finally"]
            /\ cur' = r
            /\ phases' = [phases EXCEPT ![r] = <<"Received", "Failed">>]
            /\ UNCHANGED <<locals, child, calls>>
       ELSE LET videoPath == videoPathOf(r)
                audioPath == audioPathOf(videoPath)
            IN /\ locals' = [locals EXCEPT ![r] =
                                [videoPath |-> videoPath, audioPath |-> audioPath]]
               /\ calls' = [calls EXCEPT ![r].extract = Append(@, <<videoPath, audioPath>>)]
               /\ child' = [child EXCEPT ![r] = Running]
               /\ pc' = [pc EXCEPT ![r] = "extract_wait"]
               /\ phases' = [phases EXCEPT ![r] = <<"Received", "Extracting">>]
               /\ UNCHANGED <<resp, cur>>
  /\ UNCHANGED <<req, fs, out, healthResp, healthCalls, aux>>

\* the ffmpeg process: writes the wav and exits 0, or exits non-zero with
\* nothing or with a truncated file at the destination
Ffmpeg(r) ==
  /\ pc[r] = "extract_wait"
  /\ child[r].st = "running"
  /\ \E outcome \in {"ok", "fail", "partial"} :
       /\ child' = [child EXCEPT ![r] = Exited(IF outcome = "ok" THEN 0 ELSE 1, <<>>)]
       /\ fs' = IF outcome = "fail" THEN fs
                ELSE WriteFile(fs, locals[r].audioPath,
                               IF outcome = "ok" THEN "pcm" ELSE "partial")
  /\ UNCHANGED <<pc, req, locals, resp, calls, out, phases, cur, healthResp, healthCalls, aux>>

\* transcribeWithFasterWhisper up to its await: write the script, spawn python3
StartPrimary(r, audioPath) ==
  /\ fs' = WriteFile(fs, scriptPath, audioPath)
  /\ calls' = [calls EXCEPT ![r].primary = Append(@, audioPath)]
  /\ child' = [child EXCEPT ![r] = Running]
  /\ pc' = [pc EXCEPT ![r] = "primary_wait"]

\* variant: the fallback engine is handed the video instead of the audio
StartFallbackOnVideo(r, audioPath) ==
  /\ calls' = [calls EXCEPT ![r].fallback = Append(@, locals[r].videoPath)]
  /\ child' = [child EXCEPT ![r] = Running]
  /\ pc' = [pc EXCEPT ![r] = "fallback_wait"]

\* transcribeWithWhisper up to its await: spawn the whisper CLI
StartFallback(r, audioPath) ==
  /\ calls' = [calls EXCEPT ![r].fallback = Append(@, audioPath)]
  /\ child' = [child EXCEPT ![r] = Running]
  /\ pc' = [pc EXCEPT ![r] = "fallback_wait"]

\* variant: the exit status of ffmpeg is ignored
extractThrowsNever(code) == FALSE

\* execPromise rejects on a non-zero exit, and extractAudio rethrows
extractThrows(code) == code # 0

\* extractAudio after its await, then lines 123-129 or the handler's catch
ExtractResume(r) ==
  /\ cur = 0
  /\ pc[r] = "extract_wait"
  /\ child[r].st = "exited"
  /\ out' = [out EXCEPT ![r].extract = child[r].code]
  /\ IF extractThrows(child[r].code)
       THEN /\ Respond(r, JsonError(500, errorBody(<<"Failed to extract audio from video">>)),
                       "Failed")
            /\ UNCHANGED <<fs, calls, child>>
       ELSE /\ StartPrimary(r, locals[r].audioPath)
            /\ phases' = [phases EXCEPT ![r] = Append(@, "Transcribing")]
            /\ UNCHANGED <<resp, cur>>
  /\ UNCHANGED <<req, locals, healthResp, healthCalls, aux>>

\* the python3 process: opens the script that is at scriptPath when it runs,
\* and transcribes the audio file that script names
Python(r) ==
  /\ pc[r] = "primary_wait"
  /\ child[r].st = "running"
  /\ IF ~Exists(scriptPath) THEN child' = [child EXCEPT ![r] = Exited(2, <<>>)]
     ELSE IF ~Exists(fs[scriptPath]) THEN child' = [child EXCEPT ![r] = Exited(1, <<>>)]
     ELSE \/ child' = [child EXCEPT ![r] = Exited(0, FwStdout(baseName(fs[scriptPath])))]
          \/ child' = [child EXCEPT ![r] = Exited(1, <<>>)]
  /\ UNCHANGED <<pc, req, fs, locals, resp, calls, out, phases, cur, healthResp, healthCalls, aux>>

\* what transcribeWithFasterWhisper returns or throws after its await
primaryResult(code, stdout, scriptExists) ==
  IF code # 0 THEN <<"err", <<"Transcription failed: ", "Command failed">>>>
  ELSE IF ~scriptExists THEN <<"err", <<"Transcription failed: ", "ENOENT">>>>
  ELSE <<"ok", trim(stdout)>>

\* lines 97-98 / 99-102, then lines 130-139 of the handler
PrimaryResume(r) ==
  /\ cur = 0
  /\ pc[r] = "primary_wait"
  /\ child[r].st = "exited"
  /\ LET result == primaryResult(child[r].code, child[r].stdout, Exists(scriptPath))
     IN /\ out' = [out EXCEPT ![r].primary = result]
        /\ IF result[1] = "ok"
             THEN /\ fs' = Unlink(fs, scriptPath)
                  /\ Respond(r, JsonTranscript(result[2]), "Succeeded")
                  /\ UNCHANGED <<calls, child>>
             ELSE /\ StartFallback(r, locals[r].audioPath)
                  /\ UNCHANGED <<fs, resp, cur, phases>>
  /\ UNCHANGED <<req, locals, healthResp, healthCalls, aux>>

\* the whisper CLI: writes /tmp/<base>.txt and exits 0, exits 0 after
\* skipping the file, or exits non-zero
Whisper(r) ==
  /\ pc[r] = "fallback_wait"
  /\ child[r].st = "running"
  /\ \E outcome \in {"ok", "skipped", "fail"} :
       /\ child' = [child EXCEPT ![r] = Exited(IF outcome = "fail" THEN 1 ELSE 0, <<>>)]
       /\ fs' = IF outcome = "ok"
                  THEN WriteFile(fs, transcriptPathOf(locals[r].audioPath),
                                 WTxt(baseName(locals[r].audioPath)))
                  ELSE fs
  /\ UNCHANGED <<pc, req, locals, resp, calls, out, phases, cur, healthResp, healthCalls, aux>>

\* variant: the catch rethrows the inner error as it is
fallbackResultRethrow(code, transcriptExists, transcript) ==
  IF code # 0 THEN <<"err", <<"Command failed">>>>
  ELSE IF ~transcriptExists THEN <<"err", <<"Transcript file not generated">>>>
  ELSE <<"ok", trim(transcript)>>

\* what transcribeWithWhisper returns or throws after its await
fallbackResult(code, transcriptExists, transcript) ==
  IF code # 0 THEN <<"err", <<"Transcription failed: ", "Command failed">>>>
  ELSE IF ~transcriptExists
    THEN <<"err", <<"Transcription failed: ", "Transcript file not generated">>>>
  ELSE <<"ok", trim(transcript)>>

\* lines 57-71, then lines 136-145 of the handler
FallbackResume(r) ==
  /\ cur = 0
  /\ pc[r] = "fallback_wait"
  /\ child[r].st = "exited"
  /\ LET transcriptPath == transcriptPathOf(locals[r].audioPath)
         result == fallbackResult(child[r].code, Exists(transcriptPath),
                                  IF Exists(transcriptPath) THEN fs[transcriptPath] ELSE <<>>)
     IN /\ out' = [out EXCEPT ![r].fallback = result]
        /\ IF result[1] = "ok"
             THEN /\ fs' = Unlink(fs, transcriptPath)
                  /\ Respond(r, JsonTranscript(result[2]), "Succeeded")
             ELSE /\ fs' = fs
                  /\ Respond(r, JsonError(500, errorBody(result[2])), "Failed")
  /\ UNCHANGED <<req, locals, child, calls, healthResp, healthCalls, aux>>

\* variant: the finally block forgets the extracted audio
finallyCleanupVideoOnly(f, videoPath, audioPath) ==
  IF videoPath # <<>> /\ videoPath \in DOMAIN f THEN Unlink(f, videoPath) ELSE f

\* the finally block: each file is unlinked if its path is set and it exists
finallyCleanup(f, videoPath, audioPath) ==
  LET f1 == IF videoPath # <<>> /\ videoPath \in DOMAIN f THEN Unlink(f, videoPath) ELSE f
  IN IF audioPath # <<>> /\ audioPath \in DOMAIN f1 THEN Unlink(f1, audioPath) ELSE f1

Finally(r) ==
  /\ cur = r
  /\ pc[r] = "finally"
  /\ fs' = finallyCleanup(fs, locals[r].videoPath, locals[r].audioPath)
  /\ pc' = [pc EXCEPT ![r] = "done"]
  /\ cur' = 0
  /\ UNCHANGED <<req, locals, child, resp, calls, out, phases, healthResp, healthCalls, aux>>

\* ------------------------------------------------- app.get('/api/health')
\* variant: the probe reports a failed transcription
healthBodyDegraded ==
  IF \E r \in Reqs : resp[r].status = 500
    THEN [status |-> 503, type |-> "json",
          body |-> [status |-> "degraded", mode |-> "local-whisper"]]
    ELSE [status |-> 200, type |-> "json",
          body |-> [status |-> "ok", mode |-> "local-whisper"]]

healthBody == [status |-> 200, type |-> "json",
               body |-> [status |-> "ok", mode |-> "local-whisper"]]

Health ==
  /\ cur = 0
  /\ healthCalls < MaxHealth
  /\ healthResp' = healthBody
  /\ healthCalls' = healthCalls + 1
  /\ UNCHANGED <<pipeline, aux>>

\* -------------------------------------------------------------------- spec
Next ==
  \/ \E r \in Reqs, u \in Uploads : MulterUpload(r, u)
  \/ \E r \in Reqs : HandlerStart(r)
  \/ \E r \in Reqs : Ffmpeg(r)
  \/ \E r \in Reqs : ExtractResume(r)
  \/ \E r \in Reqs : Python(r)
  \/ \E r \in Reqs : PrimaryResume(r)
  \/ \E r \in Reqs : Whisper(r)
  \/ \E r \in Reqs : FallbackResume(r)
  \/ \E r \in Reqs : Finally(r)
  \/ Health

\* no finally block has run
NoCleanup == [attempted |-> <<>>, threw |-> FALSE]
CleanupInit == cleanup = [r \in Reqs |-> NoCleanup]

\* the page as the module leaves it after loading: let transcriber = null,
\* let isModelLoading = false, no handler running
Null == "null"
PageLoaded ==
  /\ transcriber = Null
  /\ isModelLoading = FALSE
  /\ ytDisabled = FALSE
  /\ statusText = ""
  /\ hpc = [h \in Handlers |-> "idle"]
  /\ hkind = [h \in Handlers |-> "none"]
  /\ hfound = [h \in Handlers |-> -1]
  /\ hres = [h \in Handlers |-> "none"]

\* the backend alone: the page is not used
InitServer == Init /\ CleanupInit /\ PageLoaded /\ btnDisabled = TRUE

Spec == InitServer /\ [][Next]_vars

\* ------------------------------------------- finally with a failing unlink
\* The finally block when fs.unlinkSync can throw on an existing file (EPERM,
\* EBUSY, EACCES): the exception leaves the block at once, so the statements
\* after the throwing call do not run and the async handler rejects.
faultyFinally(f, videoPath, audioPath, videoFails, audioFails) ==
  IF videoPath # <<>> /\ videoPath \in DOMAIN f /\ videoFails
    THEN [fs |-> f, attempted |-> <<videoPath>>, threw |-> TRUE]
  ELSE
    LET tryVideo == videoPath # <<>> /\ videoPath \in DOMAIN f
        f1 == IF tryVideo THEN Unlink(f, videoPath) ELSE f
        a1 == IF tryVideo THEN <<videoPath>> ELSE <<>>
        tryAudio == audioPath # <<>> /\ audioPath \in DOMAIN f1
    IN IF tryAudio /\ audioFails
         THEN [fs |-> f1, attempted |-> Append(a1, audioPath), threw |-> TRUE]
       ELSE IF tryAudio
         THEN [fs |-> Unlink(f1, audioPath), attempted |-> Append(a1, audioPath),
               threw |-> FALSE]
       ELSE [fs |-> f1, attempted |-> a1, threw |-> FALSE]

FinallyFault(r) ==
  /\ cur = r
  /\ pc[r] = "finally"
  /\ \E videoFails, audioFails \in BOOLEAN :
       LET res == faultyFinally(fs, locals[r].videoPath, locals[r].audioPath,
                                videoFails, audioFails)
       IN /\ fs' = res.fs
          /\ cleanup' = [cleanup EXCEPT ![r] =
                           [attempted |-> res.attempted, threw |-> res.threw]]
          /\ pc' = [pc EXCEPT ![r] = IF res.threw THEN "threw" ELSE "done"]
  /\ cur' = 0
  /\ UNCHANGED <<req, locals, child, resp, calls, out, phases, healthResp, healthCalls, browser>>

NextFault ==
  \/ \E r \in Reqs, u \in Uploads : MulterUpload(r, u)
  \/ \E r \in Reqs : HandlerStart(r)
  \/ \E r \in Reqs : Ffmpeg(r)
  \/ \E r \in Reqs : ExtractResume(r)
  \/ \E r \in Reqs : Python(r)
  \/ \E r \in Reqs : PrimaryResume(r)
  \/ \E r \in Reqs : Whisper(r)
  \/ \E r \in Reqs : FallbackResume(r)
  \/ \E r \in Reqs : FinallyFault(r)
  \/ Health

\* the backend on a disk whose unlink can fail
SpecFault == InitServer /\ [][NextFault]_vars

\* ===================================================== the page (part_000)
\* Every action is one run-to-completion segment of a listener: from the
\* event, or from the settling of the promise it awaits, to its next await
\* on something outside the page (model download, audio rendering, fetch,
\* inference) or to its end.  An await on a promise that is already settled
\* resumes before any other event is handled and is part of the segment.

Model == "model"
\* the load whose pipeline() call has not settled
Loading == {h \in Handlers : hpc[h] = "loading"}

\* variant: loadTranscriber only looks at transcriber
loadReturnsEarlyNoFlag(t, loading) == t # Null

\* loadTranscriber line 32: if (transcriber || isModelLoading) return
loadReturnsEarly(t, loading) == t # Null \/ loading

\* button.disabled = false in the finally of a click listener
Enable(kind) ==
  /\ btnDisabled' = IF kind = "file" THEN FALSE ELSE btnDisabled
  /\ ytDisabled' = IF kind = "youtube" THEN FALSE ELSE ytDisabled

\* button.disabled = true at the start of a click listener
Disable(kind) ==
  /\ btnDisabled' = IF kind = "file" THEN TRUE ELSE btnDisabled
  /\ ytDisabled' = IF kind = "youtube" THEN TRUE ELSE ytDisabled

\* catch (error) { updateStatus(`Error: ${error.message}`) } finally { .. }
Fail(h, kind, message) ==
  /\ statusText' = <<"Error: ", message>>
  /\ hpc' = [hpc EXCEPT ![h] = "done"]
  /\ hres' = [hres EXCEPT ![h] = message]
  /\ Enable(kind)

\* the code after the model is there: lines 75-77 or lines 115-123
StartWork(h, kind) ==
  /\ hpc' = [hpc EXCEPT ![h] = IF kind = "file" THEN "extracting" ELSE "fetching"]
  /\ statusText' = IF kind = "file" THEN <<"Processing audio from video file...">>
                   ELSE <<"Connecting to backend for YouTube audio...">>
  /\ UNCHANGED hres

\* lines 72-73 / 112-113 at the click:
\*   if (!transcriber) await loadTranscriber();
\*   if (!transcriber) throw new Error("Model not available.");
Acquire(h, kind) ==
  IF transcriber # Null
    THEN /\ StartWork(h, kind)
         /\ Disable(kind)
         /\ hfound' = [hfound EXCEPT ![h] = 0]
         /\ UNCHANGED isModelLoading
  ELSE IF loadReturnsEarly(transcriber, isModelLoading)
    THEN /\ Fail(h, kind, "Model not available.")
         /\ hfound' = [hfound EXCEPT ![h] = CHOOSE g \in Loading : TRUE]
         /\ UNCHANGED isModelLoading
  ELSE /\ isModelLoading' = TRUE
       /\ statusText' = <<"Loading transcription model... (this may take a moment)">>
       /\ hpc' = [hpc EXCEPT ![h] = "loading"]
       /\ hfound' = [hfound EXCEPT ![h] = h]
       /\ Disable(kind)
       /\ UNCHANGED hres

\* fileUpload 'change' with a file chosen (lines 53-62)
FileChange ==
  /\ btnDisabled' = FALSE
  /\ statusText' = <<"File selected. Ready to transcribe!">>
  /\ UNCHANGED <<transcriber, isModelLoading, ytDisabled, hpc, hkind, hfound, hres>>
  /\ UNCHANGED server

\* transcribeBtn 'click' (lines 66-73); a disabled button gets no click
ClickFile(h) ==
  /\ hpc[h] = "idle"
  /\ ~btnDisabled
  /\ hkind' = [hkind EXCEPT ![h] = "file"]
  /\ Acquire(h, "file")
  /\ UNCHANGED transcriber
  /\ UNCHANGED server

\* youtubeBtn 'click' (lines 100-113)
ClickYoutube(h) ==
  /\ hpc[h] = "idle"
  /\ ~ytDisabled
  /\ hkind' = [hkind EXCEPT ![h] = "youtube"]
  /\ \/ \* youtubeLinkInput.value is empty: alert and return
        /\ hpc' = [hpc EXCEPT ![h] = "done"]
        /\ hres' = [hres EXCEPT ![h] = "Please paste a YouTube link first."]
        /\ UNCHANGED <<isModelLoading, btnDisabled, ytDisabled, statusText, hfound>>
     \/ Acquire(h, "youtube")
  /\ UNCHANGED transcriber
  /\ UNCHANGED server

\* pipeline() settles: lines 40-47 of loadTranscriber, then the listener
\* that awaited it goes on at line 73 / 113
LoadSettle(h) ==
  /\ hpc[h] = "loading"
  /\ isModelLoading' = FALSE
  /\ \/ /\ transcriber' = Model
        /\ StartWork(h, hkind[h])
        /\ UNCHANGED <<btnDisabled, ytDisabled>>
     \/ /\ transcriber' = transcriber
        /\ IF transcriber = Null
             THEN Fail(h, hkind[h], "Model not available.")
             ELSE StartWork(h, hkind[h]) /\ UNCHANGED <<btnDisabled, ytDisabled>>
  /\ UNCHANGED <<hkind, hfound>>
  /\ UNCHANGED server

\* runTranscription up to its await (lines 175-181)
StartTranscription(h, kind) ==
  IF transcriber = Null
    THEN Fail(h, kind, "Transcription model is not loaded.")
    ELSE /\ hpc' = [hpc EXCEPT ![h] = "transcribing"]
         /\ statusText' = <<"Transcribing audio... This can take a while.">>
         /\ UNCHANGED <<hres, btnDisabled, ytDisabled>>

\* extractAndResampleAudio settles with samples or with null (lines 77-82)
ExtractSettle(h) ==
  /\ hpc[h] = "extracting"
  /\ \/ StartTranscription(h, "file")
     \/ Fail(h, "file", "Could not extract audio. Please try a different file.")
  /\ UNCHANGED <<transcriber, isModelLoading, hkind, hfound>>
  /\ UNCHANGED server

\* fetch('/api/transcribe-youtube') settles (lines 119-136, 142-153)
FetchSettle(h) ==
  /\ hpc[h] = "fetching"
  /\ \/ StartTranscription(h, "youtube")
     \/ Fail(h, "youtube", "Backend error")
     \/ \* TypeError (failed to fetch): alert, then the fixed status text
        /\ statusText' = <<"YouTube support is not yet enabled. Please use file upload.">>
        /\ hpc' = [hpc EXCEPT ![h] = "done"]
        /\ hres' = [hres EXCEPT ![h] = "TypeError"]
        /\ Enable("youtube")
  /\ UNCHANGED <<transcriber, isModelLoading, hkind, hfound>>
  /\ UNCHANGED server

\* the transcriber call settles (lines 82-93 / 136-153)
TranscribeSettle(h) ==
  /\ hpc[h] = "transcribing"
  /\ \/ /\ statusText' = IF hkind[h] = "file" THEN <<"File transcription complete!">>
                         ELSE <<"YouTube transcription complete!">>
        /\ hpc' = [hpc EXCEPT ![h] = "done"]
        /\ hres' = [hres EXCEPT ![h] = "ok"]
        /\ Enable(hkind[h])
     \/ Fail(h, hkind[h], "inference failed")
  /\ UNCHANGED <<transcriber, isModelLoading, hkind, hfound>>
  /\ UNCHANGED server

NextBrowser ==
  \/ FileChange
  \/ \E h \in Handlers : ClickFile(h)
  \/ \E h \in Handlers : ClickYoutube(h)
  \/ \E h \in Handlers : LoadSettle(h)
  \/ \E h \in Handlers : ExtractSettle(h)
  \/ \E h \in Handlers : FetchSettle(h)
  \/ \E h \in Handlers : TranscribeSettle(h)

\* the page alone; the markup that sets transcribeBtn's first state is not
\* part of the script, so both are possible
InitBrowser == Init /\ CleanupInit /\ PageLoaded /\ btnDisabled \in BOOLEAN

SpecBrowser == InitBrowser /\ [][NextBrowser]_vars

\* ================================================================ properties
\* the upload of r passed multer and its file was stored
Stored(r) == req[r].present /\ pc[r] \notin {"new", "rejected"}
VideoOf(r) == videoPathOf(r)
AudioOf(r) == audioPathOf(videoPathOf(r))
TxtOf(r) == transcriptPathOf(AudioOf(r))
Responded(r) == resp[r] # NoResp
Success(r) == resp[r].status \in 200..299
BothEnginesFailed(r) == out[r].primary[1] = "err" /\ out[r].fallback[1] = "err"

\* C1: for every accepted upload, once the handler has finished (success,
\* extraction failure or failure of both engines), neither the uploaded video
\* nor the derived audio file exists on disk.
C1_NoUploadOrAudioAfterHandler ==
  \A r \in Reqs :
    (Stored(r) /\ pc[r] = "done") => ~Exists(VideoOf(r)) /\ ~Exists(AudioOf(r))

\* an accepted upload whose handler finished after both engines failed
C1_Witness ==
  \E r \in Reqs : Stored(r) /\ pc[r] = "done" /\ BothEnginesFailed(r)

\* C2 (as claimed): an upload is accepted only if its lower-cased extension is
\* exactly one of the seven allowed ones; any other upload is rejected as a
\* failure and neither extractAudio nor an engine is invoked for it.
C2_OnlyListedExtensionsAccepted ==
  \A r \in Reqs :
    (req[r].present /\ pc[r] # "new"
       /\ slice1(toLowerCase(extname(req[r].originalname))) \notin allowedTypes)
    => /\ pc[r] = "rejected"
       /\ calls[r] = NoCalls
       /\ ~Success(r)

\* C3: the fallback engine runs at most once, and only after the primary
\* engine failed, on the audio path the primary engine was given; no error
\* is returned after extraction before the fallback has been tried; the
\* transcript of a 200 response is the fallback's text when the fallback
\* succeeded and the primary's text when the primary succeeded, in which case
\* the fallback was never invoked.
C3_FallbackOnceAfterPrimaryFailure ==
  \A r \in Reqs :
    /\ Len(calls[r].primary) <= 1
    /\ Len(calls[r].fallback) <= 1
    /\ calls[r].fallback # <<>> => out[r].primary[1] = "err"
    /\ out[r].primary[1] = "err" =>
         /\ Len(calls[r].fallback) = 1
         /\ calls[r].fallback = calls[r].primary
         /\ calls[r].fallback[1] = AudioOf(r)
    /\ out[r].primary[1] = "ok" =>
         /\ calls[r].fallback = <<>>
         /\ resp[r] = JsonTranscript(out[r].primary[2])
    /\ out[r].fallback[1] = "ok" => resp[r] = JsonTranscript(out[r].fallback[2])
    /\ (Responded(r) /\ ~Success(r) /\ calls[r].primary # <<>>) =>
         out[r].fallback[1] = "err"

\* the primary engine failed and the fallback's text was returned
C3_Witness ==
  \E r \in Reqs :
    /\ out[r].primary[1] = "err"
    /\ out[r].fallback[1] = "ok"
    /\ resp[r].status = 200
    /\ resp[r].body.transcript = <<WWord(r)>>

\* C4: when both engines failed, the response has a non-2xx status, an error
\* message that begins with 'Transcription failed', and no transcript field.
C4_BothFailGivesTranscriptionError ==
  \A r \in Reqs :
    BothEnginesFailed(r) =>
      /\ Responded(r)
      /\ ~Success(r)
      /\ "error" \in DOMAIN resp[r].body
      /\ Head(resp[r].body.error) \in {"Transcription failed: ", "Transcription failed"}
      /\ "transcript" \notin DOMAIN resp[r].body

\* both engines failed, the fallback because it produced no transcript file
C4_Witness ==
  \E r \in Reqs :
    /\ BothEnginesFailed(r)
    /\ out[r].fallback[2][2] = "Transcript file not generated"
    /\ pc[r] = "done"

\* C5: a failed extraction is terminal: extractAudio ran once, no engine was
\* invoked, the response is 500 { error: 'Failed to extract audio from video' }
\* and once the handler has finished no temp file of the request remains.
C5_ExtractionFailureIsTerminal ==
  \A r \in Reqs :
    /\ Len(calls[r].extract) <= 1
    /\ out[r].extract > 0 =>
         /\ Len(calls[r].extract) = 1
         /\ calls[r].primary = <<>> /\ calls[r].fallback = <<>>
         /\ resp[r] = [status |-> 500, type |-> "json",
                       body |-> [error |-> <<"Failed to extract audio from video">>]]
         /\ pc[r] = "done" =>
              ~Exists(VideoOf(r)) /\ ~Exists(AudioOf(r)) /\ ~Exists(TxtOf(r))

\* extraction failed for a finished request
C5_Witness ==
  \E r \in Reqs : out[r].extract > 0 /\ pc[r] = "done"

\* the lifecycle paths of the pipeline
HappyPath == <<"Received", "Extracting", "Transcribing", "Succeeded">>
ExtractFailPath == <<"Received", "Extracting", "Failed">>
TranscribeFailPath == <<"Received", "Extracting", "Transcribing", "Failed">>
NoFilePath == <<"Received", "Failed">>
IsPrefix(p, q) == Len(p) <= Len(q) /\ SubSeq(q, 1, Len(p)) = p
NoRepeat(p) == \A i, j \in 1..Len(p) : p[i] = p[j] => i = j
OnPath(r, paths) ==
  /\ \E q \in paths : IsPrefix(phases[r], q)
  /\ Responded(r) => phases[r] \in paths
OrderKept(r) ==
  /\ NoRepeat(phases[r])
  /\ (\E i \in 1..Len(phases[r]) : phases[r][i] = "Transcribing") =>
       /\ out[r].extract = 0
       /\ calls[r].primary # <<>>
  /\ (Responded(r) /\ calls[r].primary # <<>>) =>
       /\ child[r].st = "exited"
       /\ out[r].primary[1] = "ok" \/ out[r].fallback[1] # "none"

\* C6 (as claimed): every request that enters the handler follows one of the
\* three listed paths, with no state revisited or skipped.
C6_OnlyThreeLifecyclePaths ==
  \A r \in Reqs :
    phases[r] # <<>> =>
      OnPath(r, {HappyPath, ExtractFailPath, TranscribeFailPath}) /\ OrderKept(r)

\* C6 (amended): a request that enters the handler with a stored file follows
\* one of the three listed paths and a request without a file goes
\* Received -> Failed; no state is revisited, transcription starts only after
\* ffmpeg exited with status 0, and the response is sent only after the last
\* engine run has terminated.  A request rejected by the upload middleware
\* never enters the lifecycle.
C6_LifecyclePaths ==
  \A r \in Reqs :
    /\ pc[r] \in {"new", "rejected"} => phases[r] = <<>>
    /\ pc[r] \notin {"new", "rejected", "uploaded"} =>
         /\ phases[r] # <<>>
         /\ IF req[r].present
              THEN OnPath(r, {HappyPath, ExtractFailPath, TranscribeFailPath})
              ELSE OnPath(r, {NoFilePath})
         /\ OrderKept(r)

\* one request ended on the happy path and another after both engines failed
C6_Witness ==
  \E r1, r2 \in Reqs :
    /\ phases[r1] = HappyPath /\ pc[r1] = "done"
    /\ phases[r2] = TranscribeFailPath /\ pc[r2] = "done"

\* C7 (as claimed): at the moment the response of an accepted upload is
\* issued, neither the uploaded video nor the derived audio file exists.
C7_FilesGoneWhenResponseIssued ==
  \A r \in Reqs :
    (Stored(r) /\ Responded(r)) => ~Exists(VideoOf(r)) /\ ~Exists(AudioOf(r))

\* C7 (amended): the response of an accepted upload is issued before the
\* cleanup; the handler keeps the event loop from the response to the end of
\* its finally block, and once that block has run neither file exists.
C7_CleanupRightAfterResponse ==
  \A r \in Reqs :
    (Stored(r) /\ Responded(r)) =>
      \/ pc[r] = "finally" /\ cur = r /\ Exists(VideoOf(r))
      \/ pc[r] = "done" /\ cur # r /\ ~Exists(VideoOf(r)) /\ ~Exists(AudioOf(r))

\* a transcript has been sent and the finally block has not run yet, while
\* another request is waiting for its engine
C7_Witness ==
  \E r1, r2 \in Reqs :
    /\ Stored(r1) /\ resp[r1].status = 200 /\ pc[r1] = "finally"
    /\ Exists(AudioOf(r1))
    /\ pc[r2] = "primary_wait"

\* C8 (as claimed): every response of POST /api/transcribe is either
\* { error: string } with a non-2xx status or { transcript: string } with a
\* 2xx status, also for uploads rejected for their extension or size.
C8_StructuredResponses ==
  \A r \in Reqs :
    Responded(r) =>
      /\ resp[r].type = "json"
      /\ \/ ~Success(r) /\ DOMAIN resp[r].body = {"error"}
         \/ Success(r) /\ DOMAIN resp[r].body = {"transcript"}

\* the paths a request reads, writes or deletes while it is in flight
InFlight(r) ==
  pc[r] \in {"uploaded", "extract_wait", "primary_wait", "fallback_wait", "finally"}
Artifacts(r) ==
  (IF req[r].present THEN {VideoOf(r)} ELSE {})
  \cup (IF calls[r].extract # <<>> THEN {AudioOf(r)} ELSE {})
  \cup (IF calls[r].primary # <<>> THEN {scriptPath} ELSE {})
  \cup (IF calls[r].fallback # <<>> THEN {TxtOf(r)} ELSE {})

\* C9 (as claimed): no two in-flight requests use the same artifact path.
C9_ArtifactPathsUnique ==
  \A r1, r2 \in Reqs :
    (r1 # r2 /\ InFlight(r1) /\ InFlight(r2)) => Artifacts(r1) \cap Artifacts(r2) = {}

\* C10: every GET /api/health answers 200 { status: 'ok', mode:
\* 'local-whisper' } and leaves the state of every transcription request and
\* of the disk as it was.
C10_HealthIndependentOfPipeline ==
  [][healthCalls' # healthCalls =>
       /\ healthResp' = [status |-> 200, type |-> "json",
                         body |-> [status |-> "ok", mode |-> "local-whisper"]]
       /\ UNCHANGED pipeline]_vars

\* the probe answered while one request had failed and another was in flight
C10_Witness ==
  /\ healthCalls > 0
  /\ healthResp.status = 200
  /\ \E r1, r2 \in Reqs : resp[r1].status = 500 /\ pc[r2] = "fallback_wait"

\* what the engines make of the audio extracted for request r
OwnTranscripts(r) == {trim(FwStdout(r)), trim(WTxt(r))}

\* C11 (as claimed): the transcript returned to a request is the transcription
\* of its own extracted audio, and no request falls back because another
\* request removed the script its own successful Primary run had used.
C11_OwnTranscriptUnderInterleaving ==
  \A r \in Reqs :
    /\ resp[r].status = 200 => resp[r].body.transcript \in OwnTranscripts(r)
    /\ out[r].primary[1] = "err" => out[r].primary[2][2] # "ENOENT"

\* C13 (as claimed): once a request has completed and no other request is
\* between writing and unlinking the script, neither /tmp/transcribe.py nor
\* the request's /tmp/<base>.txt exists.
C13_NoEngineTempFileRemains ==
  \A r \in Reqs :
    pc[r] = "done" =>
      /\ ~Exists(TxtOf(r))
      /\ (calls[r].primary # <<>> /\ \A q \in Reqs : pc[q] # "primary_wait")
           => ~Exists(scriptPath)

Range(q) == {q[i] : i \in 1..Len(q)}

\* C12 (as claimed): when an unlinkSync of the finally block fails, the
\* handler does not throw, and a failed deletion of the video does not keep
\* the audio file from being unlinked: an audio file that is still on disk
\* after the handler ended is one whose deletion was attempted.
C12_CleanupFailuresSwallowed ==
  \A r \in Reqs :
    pc[r] \in {"done", "threw"} =>
      /\ ~cleanup[r].threw
      /\ (locals[r].audioPath # <<>> /\ Exists(locals[r].audioPath))
           => locals[r].audioPath \in Range(cleanup[r].attempted)

\* C14: at most one pipeline() call is in flight, isModelLoading is true
\* exactly while one is, no load starts once transcriber is set, and
\* transcriber, once set, is never reset to null.
C14_SingleModelLoad ==
  /\ [](/\ Cardinality(Loading) <= 1
        /\ isModelLoading <=> Loading # {})
  /\ [][transcriber # Null =>
          /\ transcriber' # Null
          /\ Loading' \subseteq Loading]_vars

\* a click of the other button came while a load was in flight and started
\* no second load, and a later click found the model loaded
C14_Witness ==
  \E g, h1, h2 \in Handlers :
    /\ hfound[g] = g
    /\ h1 # g /\ hfound[h1] = g /\ hkind[h1] # hkind[g]
    /\ hfound[h2] = 0
    /\ transcriber = Model

\* the load that handler g started has succeeded
LoadSucceeded(g) ==
  /\ hfound[g] = g
  /\ hpc[g] \notin {"idle", "loading"}
  /\ hres[g] # "Model not available."

\* C15 (as claimed): a handler started while the load of another handler was
\* in flight does not end with 'Model not available.' when that load succeeds.
C15_WaitsForLoadInFlight ==
  \A h, g \in Handlers :
    (h # g /\ hfound[h] = g /\ LoadSucceeded(g)) => hres[h] # "Model not available."

\* the file-transcription handlers that have started and not finished
FileInProgress ==
  {h \in Handlers : hkind[h] = "file" /\ hpc[h] \in {"loading", "extracting", "transcribing"}}

\* C16 (as claimed): while a file-transcription handler is in progress the
\* file button is disabled, and at most one such handler is in progress.
C16_OneFileHandlerAtATime ==
  /\ FileInProgress # {} => btnDisabled
  /\ Cardinality(FileInProgress) <= 1

====
